---- MODULE Spec2Model ----
(***************************************************************************)
(* Symbolic differentiation and simplification over expression trees      *)
(* (symdiff.py): Constant, Variable, Add, Multiply, Power, the operator    *)
(* overloads that build them, and the two recursive engines.               *)
(*                                                                         *)
(* A node is a record carrying the identity of the Python object (id), so  *)
(* that "return left" (the same object) and "Constant(0)" (a new object)   *)
(* are told apart.  Structural equality is equality after Strip.           *)
(***************************************************************************)
EXTENDS Integers, Sequences, FiniteSets, TLC

VARIABLES expr, var, result, final, text, pc

vars == <<expr, var, result, final, text, pc>>

(***************************************************************************)
(* Bounds of the model.                                                    *)
(***************************************************************************)
MaxOps == 2
MaxBuild == 2
Cap == 4096

\* The variables of differentiation, and the atoms the input trees are built from.
VarNames == {"x", "y"}
LeafNames == {"x"}
ConstValues == {-1, 0, 1, 2}
Assignments == {-1, 0, 1, 2}

(***************************************************************************)
(* Python numbers.  An int is num/1; a float is the exact dyadic rational  *)
(* num/den.  Arithmetic that leaves this exactly modelled domain (a        *)
(* magnitude above Cap, an irrational or complex power) yields Unmodelled. *)
(***************************************************************************)
Int_(n) == [kind |-> "int", num |-> n, den |-> 1]
Float_(n, d) == [kind |-> "float", num |-> n, den |-> d]
Text_ == [kind |-> "str", num |-> 0, den |-> 1]
None_ == [kind |-> "NoneType", num |-> 0, den |-> 1]
ZeroDivisionError == [kind |-> "ZeroDivisionError", num |-> 0, den |-> 1]
Unmodelled == [kind |-> "Unmodelled", num |-> 0, den |-> 1]

IsNumber(v) == v.kind \in {"int", "float"}
IsRaise(v) == v.kind \in {"ZeroDivisionError", "Unmodelled"}

Abs(n) == IF n < 0 THEN -n ELSE n

RECURSIVE Gcd(_, _)
Gcd(a, b) == IF b = 0 THEN a ELSE Gcd(b, a % b)

\* The number num/den in lowest terms, as an int or as a float.
Norm(n, d, isFloat) ==
    LET g == Gcd(Abs(n), d)
        nn == n \div g
        dd == d \div g
    IN  IF Abs(nn) > Cap \/ dd > Cap THEN Unmodelled
        ELSE IF isFloat THEN Float_(nn, dd)
        ELSE Int_(nn)

\* value == n, for an integer literal n (Python compares 1.0 == 1 as True).
PyEq(v, n) == IsNumber(v) /\ v.num = n * v.den

PyAdd(a, b) ==
    Norm(a.num * b.den + b.num * a.den, a.den * b.den,
         a.kind = "float" \/ b.kind = "float")

PyMul(a, b) ==
    Norm(a.num * b.num, a.den * b.den, a.kind = "float" \/ b.kind = "float")

Saturate(n) == IF n > Cap THEN Cap + 1 ELSE n

\* b^n for b >= 0 and n >= 0, by squaring, saturating just above Cap (0^0 = 1).
RECURSIVE IPow(_, _)
IPow(b, n) ==
    IF n = 0 THEN 1
    ELSE LET h == IPow(b, n \div 2)
             sq == Saturate(h * h)
         IN  IF n % 2 = 1 THEN Saturate(sq * Saturate(b)) ELSE sq

\* The sign of b^n.
Sign(b, n) == IF b < 0 /\ n % 2 = 1 THEN -1 ELSE 1

RECURSIVE IsPowerOfTwo(_)
IsPowerOfTwo(n) ==
    IF n <= 0 THEN FALSE
    ELSE IF n = 1 THEN TRUE
    ELSE n % 2 = 0 /\ IsPowerOfTwo(n \div 2)

\* a ** b.  int ** negative int is a float; 0 to a negative power raises.
PyPow(a, b) ==
    LET isFloat == a.kind = "float" \/ b.kind = "float" \/ b.num < 0
        n == Abs(b.num)
        pn == IPow(Abs(a.num), n)
        pd == IPow(a.den, n)
        sg == Sign(a.num, n)
    IN  IF b.den = 1 /\ b.num >= 0 THEN
            IF pn > Cap \/ pd > Cap THEN Unmodelled
            ELSE Norm(sg * pn, pd, isFloat)
        ELSE IF a.num = 0 THEN
            IF b.num < 0 THEN ZeroDivisionError ELSE Float_(0, 1)
        ELSE IF b.den = 1 THEN
            IF pn > Cap \/ pd > Cap \/ ~IsPowerOfTwo(Abs(a.num)) THEN Unmodelled
            ELSE Norm(sg * pd, pn, TRUE)
        ELSE IF a.num = a.den THEN Float_(1, 1)
        ELSE Unmodelled

(***************************************************************************)
(* Expression nodes.                                                       *)
(***************************************************************************)
Constant(id, value) == [tag |-> "Constant", id |-> id, value |-> value]
Variable(id, name) == [tag |-> "Variable", id |-> id, name |-> name]
Add(id, left, right) == [tag |-> "Add", id |-> id, left |-> left, right |-> right]
Multiply(id, left, right) ==
    [tag |-> "Multiply", id |-> id, left |-> left, right |-> right]
Power(id, base, exponent) ==
    [tag |-> "Power", id |-> id, base |-> base, exponent |-> exponent]

\* An exception leaving an engine.
Error(kind) == [tag |-> "Error", kind |-> kind]
NoResult == [tag |-> "NoResult"]

IsError(e) == e.tag = "Error"
IsConstant(e) == e.tag = "Constant"
IsExpression(e) == e.tag \in {"Constant", "Variable", "Add", "Multiply", "Power"}

\* Constant(value) for the outcome of a fold, or the exception the fold raised.
Fold(id, v) == IF IsRaise(v) THEN Error(v.kind) ELSE Constant(id, v)

(***************************************************************************)
(* simplify.  c is the identity of the call: the node a call creates is    *)
(* c \o <<0>>, the calls it makes are c \o <<1>>, c \o <<2>>, ...          *)
(***************************************************************************)
RECURSIVE Simplify(_, _)

\* Add.simplify rebuilding the node as Add(left, left).
AddSimplifyLeftTwice(e, c) ==
    LET left == Simplify(e.left, c \o <<1>>)
        right == Simplify(e.right, c \o <<2>>)
    IN  IF IsError(left) THEN left
        ELSE IF IsError(right) THEN right
        ELSE IF IsConstant(left) /\ PyEq(left.value, 0) THEN right
        ELSE IF IsConstant(right) /\ PyEq(right.value, 0) THEN left
        ELSE IF IsConstant(left) /\ IsConstant(right)
            THEN Fold(c \o <<0>>, PyAdd(left.value, right.value))
        ELSE Add(c \o <<0>>, left, left)

\* Add.simplify returning the zero operand instead of the other one.
AddSimplifyReturnsZero(e, c) ==
    LET left == Simplify(e.left, c \o <<1>>)
        right == Simplify(e.right, c \o <<2>>)
    IN  IF IsError(left) THEN left
        ELSE IF IsError(right) THEN right
        ELSE IF IsConstant(left) /\ PyEq(left.value, 0) THEN right
        ELSE IF IsConstant(right) /\ PyEq(right.value, 0) THEN right
        ELSE IF IsConstant(left) /\ IsConstant(right)
            THEN Fold(c \o <<0>>, PyAdd(left.value, right.value))
        ELSE Add(c \o <<0>>, left, right)

AddSimplify(e, c) ==
    LET left == Simplify(e.left, c \o <<1>>)
        right == Simplify(e.right, c \o <<2>>)
    IN  IF IsError(left) THEN left
        ELSE IF IsError(right) THEN right
        ELSE IF IsConstant(left) /\ PyEq(left.value, 0) THEN right
        ELSE IF IsConstant(right) /\ PyEq(right.value, 0) THEN left
        ELSE IF IsConstant(left) /\ IsConstant(right)
            THEN Fold(c \o <<0>>, PyAdd(left.value, right.value))
        ELSE Add(c \o <<0>>, left, right)

\* Multiply.simplify folding two constants with + instead of *.
MultiplySimplifyFoldsSum(e, c) ==
    LET left == Simplify(e.left, c \o <<1>>)
        right == Simplify(e.right, c \o <<2>>)
    IN  IF IsError(left) THEN left
        ELSE IF IsError(right) THEN right
        ELSE IF IsConstant(left) /\ PyEq(left.value, 0)
            THEN Constant(c \o <<0>>, Int_(0))
        ELSE IF IsConstant(right) /\ PyEq(right.value, 0)
            THEN Constant(c \o <<0>>, Int_(0))
        ELSE IF IsConstant(left) /\ PyEq(left.value, 1) THEN right
        ELSE IF IsConstant(right) /\ PyEq(right.value, 1) THEN left
        ELSE IF IsConstant(left) /\ IsConstant(right)
            THEN Fold(c \o <<0>>, PyAdd(left.value, right.value))
        ELSE Multiply(c \o <<0>>, left, right)

\* Multiply.simplify returning self.right, not the simplified right child.
MultiplySimplifyRawChild(e, c) ==
    LET left == Simplify(e.left, c \o <<1>>)
        right == Simplify(e.right, c \o <<2>>)
    IN  IF IsError(left) THEN left
        ELSE IF IsError(right) THEN right
        ELSE IF IsConstant(left) /\ PyEq(left.value, 0)
            THEN Constant(c \o <<0>>, Int_(0))
        ELSE IF IsConstant(right) /\ PyEq(right.value, 0)
            THEN Constant(c \o <<0>>, Int_(0))
        ELSE IF IsConstant(left) /\ PyEq(left.value, 1) THEN e.right
        ELSE IF IsConstant(right) /\ PyEq(right.value, 1) THEN left
        ELSE IF IsConstant(left) /\ IsConstant(right)
            THEN Fold(c \o <<0>>, PyMul(left.value, right.value))
        ELSE Multiply(c \o <<0>>, left, right)

MultiplySimplify(e, c) ==
    LET left == Simplify(e.left, c \o <<1>>)
        right == Simplify(e.right, c \o <<2>>)
    IN  IF IsError(left) THEN left
        ELSE IF IsError(right) THEN right
        ELSE IF IsConstant(left) /\ PyEq(left.value, 0)
            THEN Constant(c \o <<0>>, Int_(0))
        ELSE IF IsConstant(right) /\ PyEq(right.value, 0)
            THEN Constant(c \o <<0>>, Int_(0))
        ELSE IF IsConstant(left) /\ PyEq(left.value, 1) THEN right
        ELSE IF IsConstant(right) /\ PyEq(right.value, 1) THEN left
        ELSE IF IsConstant(left) /\ IsConstant(right)
            THEN Fold(c \o <<0>>, PyMul(left.value, right.value))
        ELSE Multiply(c \o <<0>>, left, right)

\* Power.simplify folding constants before it looks at the exponent.
PowerSimplifyFoldsFirst(e, c) ==
    LET base == Simplify(e.base, c \o <<1>>)
        exponent == Simplify(e.exponent, c \o <<2>>)
    IN  IF IsError(base) THEN base
        ELSE IF IsError(exponent) THEN exponent
        ELSE IF IsConstant(base) /\ IsConstant(exponent)
            THEN Fold(c \o <<0>>, PyPow(base.value, exponent.value))
        ELSE IF IsConstant(exponent) /\ PyEq(exponent.value, 0)
            THEN Constant(c \o <<0>>, Int_(1))
        ELSE IF IsConstant(exponent) /\ PyEq(exponent.value, 1) THEN base
        ELSE Power(c \o <<0>>, base, exponent)

PowerSimplify(e, c) ==
    LET base == Simplify(e.base, c \o <<1>>)
        exponent == Simplify(e.exponent, c \o <<2>>)
    IN  IF IsError(base) THEN base
        ELSE IF IsError(exponent) THEN exponent
        ELSE IF IsConstant(exponent) /\ PyEq(exponent.value, 0)
            THEN Constant(c \o <<0>>, Int_(1))
        ELSE IF IsConstant(exponent) /\ PyEq(exponent.value, 1) THEN base
        ELSE IF IsConstant(base) /\ IsConstant(exponent)
            THEN Fold(c \o <<0>>, PyPow(base.value, exponent.value))
        ELSE Power(c \o <<0>>, base, exponent)

Simplify(e, c) ==
    CASE e.tag = "Add" -> AddSimplify(e, c)
      [] e.tag = "Multiply" -> MultiplySimplify(e, c)
      [] e.tag = "Power" -> PowerSimplify(e, c)
      [] OTHER -> e

(***************************************************************************)
(* differentiate.                                                          *)
(***************************************************************************)
RECURSIVE Differentiate(_, _, _)

ConstantDifferentiate(e, v, c) == Constant(c \o <<0>>, Int_(0))

VariableDifferentiate(e, v, c) ==
    IF e.name = v THEN Constant(c \o <<0>>, Int_(1))
    ELSE Constant(c \o <<0>>, Int_(0))

AddDifferentiate(e, v, c) ==
    LET left == Simplify(e.left, c \o <<1>>)
        right == Simplify(e.right, c \o <<2>>)
        dleft == Differentiate(left, v, c \o <<3>>)
        dright == Differentiate(right, v, c \o <<4>>)
    IN  IF IsError(left) THEN left
        ELSE IF IsError(right) THEN right
        ELSE IF IsError(dleft) THEN dleft
        ELSE IF IsError(dright) THEN dright
        ELSE Add(c \o <<0>>, dleft, dright)

\* Multiply.differentiate with the product of the derivatives for the product rule.
MultiplyDifferentiateNaive(e, v, c) ==
    LET left == Simplify(e.left, c \o <<1>>)
        right == Simplify(e.right, c \o <<2>>)
        dleft == Differentiate(left, v, c \o <<3>>)
        dright == Differentiate(right, v, c \o <<4>>)
    IN  IF IsError(left) THEN left
        ELSE IF IsError(right) THEN right
        ELSE IF IsError(dleft) THEN dleft
        ELSE IF IsError(dright) THEN dright
        ELSE Multiply(c \o <<0>>, dleft, dright)

MultiplyDifferentiate(e, v, c) ==
    LET left == Simplify(e.left, c \o <<1>>)
        right == Simplify(e.right, c \o <<2>>)
        dleft == Differentiate(left, v, c \o <<3>>)
        dright == Differentiate(right, v, c \o <<4>>)
    IN  IF IsError(left) THEN left
        ELSE IF IsError(right) THEN right
        ELSE IF IsError(dleft) THEN dleft
        ELSE IF IsError(dright) THEN dright
        ELSE Add(c \o <<0>>,
                 Multiply(c \o <<5>>, dleft, right),
                 Multiply(c \o <<6>>, left, dright))

\* Power.differentiate without the derivative of the base.
PowerDifferentiateNoChain(e, v, c) ==
    LET base == Simplify(e.base, c \o <<1>>)
        exponent == Simplify(e.exponent, c \o <<2>>)
    IN  IF IsError(base) THEN base
        ELSE IF IsError(exponent) THEN exponent
        ELSE Multiply(c \o <<5>>, exponent,
                 Power(c \o <<6>>, base,
                     Add(c \o <<7>>, exponent,
                         Constant(c \o <<8>>, Int_(-1)))))

PowerDifferentiate(e, v, c) ==
    LET base == Simplify(e.base, c \o <<1>>)
        exponent == Simplify(e.exponent, c \o <<2>>)
        dbase == Differentiate(base, v, c \o <<3>>)
    IN  IF IsError(base) THEN base
        ELSE IF IsError(exponent) THEN exponent
        ELSE IF IsError(dbase) THEN dbase
        ELSE Multiply(c \o <<0>>,
                 Multiply(c \o <<5>>, exponent,
                     Power(c \o <<6>>, base,
                         Add(c \o <<7>>, exponent,
                             Constant(c \o <<8>>, Int_(-1))))),
                 dbase)

Differentiate(e, v, c) ==
    CASE e.tag = "Constant" -> ConstantDifferentiate(e, v, c)
      [] e.tag = "Variable" -> VariableDifferentiate(e, v, c)
      [] e.tag = "Add" -> AddDifferentiate(e, v, c)
      [] e.tag = "Multiply" -> MultiplyDifferentiate(e, v, c)
      [] e.tag = "Power" -> PowerDifferentiate(e, v, c)

(***************************************************************************)
(* __str__.  str(int) is the decimal numeral; str(float) of a dyadic       *)
(* rational is its exact decimal expansion with at least one digit after   *)
(* the point.                                                              *)
(***************************************************************************)
RECURSIVE Digits(_, _)
\* The decimal expansion of r/d, 0 <= r < d, d a power of two.
Digits(r, d) ==
    IF r = 0 THEN ""
    ELSE ToString((10 * r) \div d) \o Digits((10 * r) % d, d)

ValueStr(v) ==
    CASE v.kind = "int" -> ToString(v.num)
      [] v.kind = "float" ->
            LET a == Abs(v.num)
                frac == Digits(a % v.den, v.den)
            IN  (IF v.num < 0 THEN "-" ELSE "") \o ToString(a \div v.den)
                    \o "." \o (IF frac = "" THEN "0" ELSE frac)
      [] v.kind = "str" -> "abc"
      [] OTHER -> "None"

RECURSIVE Str(_)
Str(e) ==
    CASE e.tag = "Constant" -> ValueStr(e.value)
      [] e.tag = "Variable" -> e.name
      [] e.tag = "Add" -> "(" \o Str(e.left) \o " + " \o Str(e.right) \o ")"
      [] e.tag = "Multiply" -> "(" \o Str(e.left) \o " * " \o Str(e.right) \o ")"
      [] e.tag = "Power" -> "(" \o Str(e.base) \o "^" \o Str(e.exponent) \o ")"

(***************************************************************************)
(* Trees as values: Strip forgets which objects the nodes are.             *)
(***************************************************************************)
RECURSIVE Relabel(_, _)
\* e with every node given its path from p as identity.
Relabel(e, p) ==
    CASE e.tag = "Constant" -> Constant(p, e.value)
      [] e.tag = "Variable" -> Variable(p, e.name)
      [] e.tag = "Add" ->
            Add(p, Relabel(e.left, p \o <<1>>), Relabel(e.right, p \o <<2>>))
      [] e.tag = "Multiply" ->
            Multiply(p, Relabel(e.left, p \o <<1>>), Relabel(e.right, p \o <<2>>))
      [] e.tag = "Power" ->
            Power(p, Relabel(e.base, p \o <<1>>), Relabel(e.exponent, p \o <<2>>))

RECURSIVE Strip(_)
Strip(e) ==
    CASE e.tag = "Constant" -> Constant(<<>>, e.value)
      [] e.tag = "Variable" -> Variable(<<>>, e.name)
      [] e.tag = "Add" -> Add(<<>>, Strip(e.left), Strip(e.right))
      [] e.tag = "Multiply" -> Multiply(<<>>, Strip(e.left), Strip(e.right))
      [] e.tag = "Power" -> Power(<<>>, Strip(e.base), Strip(e.exponent))
      [] OTHER -> e

(***************************************************************************)
(* Construction layer: the operator overloads.  An operand is an           *)
(* expression or a Python literal; c is the identity of the call.          *)
(***************************************************************************)
Literal(value) == [tag |-> "Literal", value |-> value]

to_expression(value, id) ==
    IF IsExpression(value) THEN value ELSE Constant(id, value.value)

__add__(self, other, c) ==
    Add(c \o <<0>>, self, to_expression(other, c \o <<1>>))

__radd__(self, other, c) ==
    Add(c \o <<0>>, to_expression(other, c \o <<1>>), self)

__sub__(self, other, c) ==
    Add(c \o <<0>>, self,
        Multiply(c \o <<2>>, Constant(c \o <<3>>, Int_(-1)),
                 to_expression(other, c \o <<1>>)))

__rsub__(self, other, c) ==
    Add(c \o <<0>>, to_expression(other, c \o <<1>>),
        Multiply(c \o <<2>>, Constant(c \o <<3>>, Int_(-1)), self))

__mul__(self, other, c) ==
    Multiply(c \o <<0>>, self, to_expression(other, c \o <<1>>))

__rmul__(self, other, c) ==
    Multiply(c \o <<0>>, to_expression(other, c \o <<1>>), self)

__pow__(self, other, c) ==
    Power(c \o <<0>>, self, to_expression(other, c \o <<1>>))

\* The example of the entry point: x = Variable('x'); 3 * x**2 + 2 * x + 1.
\* Both uses of x are the same object.
f1 ==
    LET x == Variable(<<0>>, "x")
        sq == __pow__(x, Literal(Int_(2)), <<0, 1>>)
        t1 == __rmul__(sq, Literal(Int_(3)), <<0, 2>>)
        t2 == __rmul__(x, Literal(Int_(2)), <<0, 3>>)
        s == __add__(t1, t2, <<0, 4>>)
    IN  __add__(s, Literal(Int_(1)), <<0, 5>>)

(***************************************************************************)
(* The inputs: every tree of at most MaxOps operators over the leaves, as  *)
(* a shape (a tree of operators over holes) and a leaf for each hole.      *)
(***************************************************************************)
Leaves ==
    {Constant(<<>>, Int_(n)) : n \in ConstValues}
        \cup {Variable(<<>>, n) : n \in LeafNames}

Hole == [tag |-> "Hole"]

Node(op, l, r) ==
    CASE op = "Add" -> Add(<<>>, l, r)
      [] op = "Multiply" -> Multiply(<<>>, l, r)
      [] op = "Power" -> Power(<<>>, l, r)

ShapesOf[n \in 0..MaxOps] ==
    IF n = 0 THEN {Hole}
    ELSE UNION {{Node(op, l, r) : op \in {"Add", "Multiply", "Power"},
                     l \in ShapesOf[i], r \in ShapesOf[n - 1 - i]} : i \in 0..(n - 1)}

Shapes == UNION {ShapesOf[n] : n \in 0..MaxOps}

RECURSIVE Holes(_)
Holes(s) ==
    CASE s.tag \in {"Add", "Multiply"} -> Holes(s.left) + Holes(s.right)
      [] s.tag = "Power" -> Holes(s.base) + Holes(s.exponent)
      [] OTHER -> 1

RECURSIVE Fill(_, _, _)
\* The shape s with its holes filled, left to right, by ls[k + 1], ls[k + 2], ...
Fill(s, ls, k) ==
    CASE s.tag = "Add" ->
            Add(<<>>, Fill(s.left, ls, k), Fill(s.right, ls, k + Holes(s.left)))
      [] s.tag = "Multiply" ->
            Multiply(<<>>, Fill(s.left, ls, k), Fill(s.right, ls, k + Holes(s.left)))
      [] s.tag = "Power" ->
            Power(<<>>, Fill(s.base, ls, k), Fill(s.exponent, ls, k + Holes(s.base)))
      [] OTHER -> ls[k + 1]

\* The arithmetic of simplify(e) stays in the exactly modelled domain.
Modelled(e) == Simplify(e, <<1>>) # Error("Unmodelled")

(***************************************************************************)
(* The engines applied to an input.                                        *)
(***************************************************************************)
Init ==
    /\ \/ \E s \in Shapes : \E ls \in [1..Holes(s) -> Leaves] :
            expr = Relabel(Fill(s, ls, 0), <<0>>)
       \/ expr = f1
    /\ Modelled(expr)
    /\ var = "x"
    /\ result = NoResult
    /\ final = NoResult
    /\ text = ""
    /\ pc = "built"

\* r = e.simplify()
DoSimplify ==
    /\ pc = "built"
    /\ result' = Simplify(expr, <<1>>)
    /\ pc' = "simplified"
    /\ UNCHANGED <<expr, var, final, text>>

\* d = e.differentiate(v)
DoDifferentiate(v) ==
    /\ pc = "built"
    /\ var' = v
    /\ result' = Differentiate(expr, v, <<1>>)
    /\ pc' = "differentiated"
    /\ UNCHANGED <<expr, final, text>>

\* d.simplify(), as the entry point does with the raw derivative
DoSimplifyResult ==
    /\ pc = "differentiated"
    /\ IsExpression(result)
    /\ Modelled(result)
    /\ final' = Simplify(result, <<2>>)
    /\ pc' = "reduced"
    /\ UNCHANGED <<expr, var, result, text>>

\* str(...) of the simplified derivative
DoStr ==
    /\ pc = "reduced"
    /\ IsExpression(final)
    /\ text' = Str(final)
    /\ pc' = "printed"
    /\ UNCHANGED <<expr, var, result, final>>

Next ==
    \/ DoSimplify
    \/ \E v \in VarNames : DoDifferentiate(v)
    \/ DoSimplifyResult
    \/ DoStr

Spec == Init /\ [][Next]_vars

(***************************************************************************)
(* Vocabulary of the properties.                                           *)
(***************************************************************************)
Raised == pc \in {"simplified", "differentiated"} /\ IsError(result)
Simplified == pc = "simplified" /\ IsExpression(result)
Differentiated == pc = "differentiated" /\ IsExpression(result)

Zero(id) == Constant(id, Int_(0))
One(id) == Constant(id, Int_(1))

\* simplify() of a node built around the input; the objects are new ones.
SimplifyAdd(l, r) == Simplify(Add(<<7>>, l, r), <<3>>)
SimplifyMultiply(l, r) == Simplify(Multiply(<<7>>, l, r), <<3>>)
SimplifyPower(b, x) == Simplify(Power(<<7>>, b, x), <<3>>)

\* Equal as trees, node for node and value for value ("renders identically").
Same(a, b) == Strip(a) = Strip(b)

RECURSIVE Untyped(_)
\* e with every numeric constant replaced by the number it denotes.
Untyped(e) ==
    CASE e.tag = "Constant" ->
            Constant(<<>>, [kind |-> "number", num |-> e.value.num, den |-> e.value.den])
      [] e.tag = "Variable" -> Variable(<<>>, e.name)
      [] e.tag = "Add" -> Add(<<>>, Untyped(e.left), Untyped(e.right))
      [] e.tag = "Multiply" -> Multiply(<<>>, Untyped(e.left), Untyped(e.right))
      [] e.tag = "Power" -> Power(<<>>, Untyped(e.base), Untyped(e.exponent))
      [] OTHER -> e

\* Equal as trees when 1.0 and 1 count as the same constant.
SameNumbers(a, b) == Untyped(a) = Untyped(b)

IsFloatConstant(e) == IsConstant(e) /\ e.value.kind = "float"

(***************************************************************************)
(* The integer an expression denotes under an assignment of its variables, *)
(* defined when every exponent is >= 0 (0^0 = 1) and no magnitude exceeds  *)
(* Cap.                                                                    *)
(***************************************************************************)
Undefined == [ok |-> FALSE, v |-> 0]
Value(n) == IF Abs(n) > Cap THEN Undefined ELSE [ok |-> TRUE, v |-> n]

RECURSIVE Eval(_, _)
Eval(e, env) ==
    CASE e.tag = "Constant" ->
            IF e.value.kind = "int" THEN Value(e.value.num) ELSE Undefined
      [] e.tag = "Variable" -> Value(env[e.name])
      [] e.tag = "Add" ->
            LET l == Eval(e.left, env)
                r == Eval(e.right, env)
            IN  IF l.ok /\ r.ok THEN Value(l.v + r.v) ELSE Undefined
      [] e.tag = "Multiply" ->
            LET l == Eval(e.left, env)
                r == Eval(e.right, env)
            IN  IF l.ok /\ r.ok THEN Value(l.v * r.v) ELSE Undefined
      [] e.tag = "Power" ->
            LET b == Eval(e.base, env)
                x == Eval(e.exponent, env)
            IN  IF b.ok /\ x.ok /\ x.v >= 0
                THEN Value(Sign(b.v, x.v) * IPow(Abs(b.v), x.v))
                ELSE Undefined

Envs == [VarNames -> Assignments]

RECURSIVE HasTag(_, _)
HasTag(e, t) ==
    \/ e.tag = t
    \/ e.tag \in {"Add", "Multiply"} /\ (HasTag(e.left, t) \/ HasTag(e.right, t))
    \/ e.tag = "Power" /\ (HasTag(e.base, t) \/ HasTag(e.exponent, t))

(***************************************************************************)
(* C1: simplify and differentiate never end in an error.                   *)
(***************************************************************************)
C1_Total == ~Raised

(***************************************************************************)
(* C2: simplify(e) denotes the same integer as e under every assignment    *)
(* under which e denotes an integer.                                       *)
(***************************************************************************)
C2_SimplifyKeepsValue ==
    pc = "simplified" =>
        \A env \in Envs :
            Eval(expr, env).ok =>
                IsExpression(result) /\ Eval(result, env) = Eval(expr, env)

C2_Witness ==
    /\ Simplified
    /\ ~Same(result, expr)
    /\ HasTag(result, "Power")
    /\ HasTag(expr, "Variable")
    /\ \E env \in Envs : Eval(expr, env).ok /\ Eval(expr, env).v > 1

(***************************************************************************)
(* C7: adding 0 or multiplying by 1, on either side, simplifies to         *)
(* simplify(e) node for node; multiplying by 0 simplifies to Constant(0).  *)
(***************************************************************************)
C7_IdentityExact ==
    Simplified =>
        /\ Same(SimplifyAdd(expr, Zero(<<8>>)), result)
        /\ Same(SimplifyAdd(Zero(<<8>>), expr), result)
        /\ Same(SimplifyMultiply(expr, One(<<8>>)), result)
        /\ Same(SimplifyMultiply(One(<<8>>), expr), result)
        /\ Same(SimplifyMultiply(expr, Zero(<<8>>)), Zero(<<>>))
        /\ Same(SimplifyMultiply(Zero(<<8>>), expr), Zero(<<>>))

(***************************************************************************)
(* C7 as amended: the same, except that where simplify(e) is a float       *)
(* constant equal to 0 or 1 the int constant of that value may come back   *)
(* (0.0 as 0, 1.0 as 1); Add(Constant(0), e) is exact in every case.       *)
(***************************************************************************)
C7_IdentityUpToType ==
    Simplified =>
        /\ SameNumbers(SimplifyAdd(expr, Zero(<<8>>)), result)
        /\ Same(SimplifyAdd(Zero(<<8>>), expr), result)
        /\ SameNumbers(SimplifyMultiply(expr, One(<<8>>)), result)
        /\ SameNumbers(SimplifyMultiply(One(<<8>>), expr), result)
        /\ Same(SimplifyMultiply(expr, Zero(<<8>>)), Zero(<<>>))
        /\ Same(SimplifyMultiply(Zero(<<8>>), expr), Zero(<<>>))
        /\ ~(IsFloatConstant(result)
                /\ (PyEq(result.value, 0) \/ PyEq(result.value, 1))) =>
            /\ Same(SimplifyAdd(expr, Zero(<<8>>)), result)
            /\ Same(SimplifyMultiply(expr, One(<<8>>)), result)
            /\ Same(SimplifyMultiply(One(<<8>>), expr), result)

C7_Witness ==
    /\ Simplified
    /\ IsFloatConstant(result)
    /\ PyEq(result.value, 1)
    /\ SimplifyMultiply(expr, One(<<8>>)) = One(<<8>>)

(***************************************************************************)
(* C8: simplify(Power(b, Constant(0))) is Constant(1) and                  *)
(* simplify(Power(b, Constant(1))) is simplify(b); the exponent rule comes *)
(* before the fold, so 0^0 is Constant(1); the same for any exponent that  *)
(* simplifies to a constant 0.                                             *)
(***************************************************************************)
C8_PowerEdges ==
    Simplified =>
        /\ Same(SimplifyPower(expr, Zero(<<8>>)), One(<<>>))
        /\ Same(SimplifyPower(expr, One(<<8>>)), result)
        /\ (IsConstant(result) /\ PyEq(result.value, 0)) =>
            /\ Same(SimplifyPower(Zero(<<8>>), expr), One(<<>>))
            /\ Same(SimplifyPower(Variable(<<8>>, "x"), expr), One(<<>>))
            /\ Same(SimplifyPower(expr, expr), One(<<>>))

C8_Witness ==
    /\ Simplified
    /\ expr.tag = "Add"
    /\ IsConstant(result)
    /\ PyEq(result.value, 0)
    /\ SimplifyPower(Zero(<<8>>), expr) = One(<<3, 0>>)

(***************************************************************************)
(* C10: simplify(e) is a fixed point of simplify and holds no node that a  *)
(* rule rewrites.                                                          *)
(***************************************************************************)
IsNumberConstant(e, n) == IsConstant(e) /\ PyEq(e.value, n)

RECURSIVE Reduced(_)
Reduced(e) ==
    CASE e.tag = "Add" ->
            /\ ~IsNumberConstant(e.left, 0)
            /\ ~IsNumberConstant(e.right, 0)
            /\ ~(IsConstant(e.left) /\ IsConstant(e.right))
            /\ Reduced(e.left)
            /\ Reduced(e.right)
      [] e.tag = "Multiply" ->
            /\ ~IsNumberConstant(e.left, 0)
            /\ ~IsNumberConstant(e.right, 0)
            /\ ~IsNumberConstant(e.left, 1)
            /\ ~IsNumberConstant(e.right, 1)
            /\ ~(IsConstant(e.left) /\ IsConstant(e.right))
            /\ Reduced(e.left)
            /\ Reduced(e.right)
      [] e.tag = "Power" ->
            /\ ~IsNumberConstant(e.exponent, 0)
            /\ ~IsNumberConstant(e.exponent, 1)
            /\ ~(IsConstant(e.base) /\ IsConstant(e.exponent))
            /\ Reduced(e.base)
            /\ Reduced(e.exponent)
      [] OTHER -> TRUE

C10_FixedPoint ==
    Simplified => Same(Simplify(result, <<3>>), result) /\ Reduced(result)

C10_Witness ==
    /\ Simplified
    /\ ~Reduced(expr)
    /\ result.tag \in {"Add", "Multiply", "Power"}
    /\ Simplify(result, <<3>>) # result

(***************************************************************************)
(* Ownership: a result is tree-shaped when no object sits at two           *)
(* positions of it.                                                        *)
(***************************************************************************)
RECURSIVE Size(_)
\* The number of positions (paths from the root) of e.
Size(e) ==
    CASE e.tag \in {"Add", "Multiply"} -> 1 + Size(e.left) + Size(e.right)
      [] e.tag = "Power" -> 1 + Size(e.base) + Size(e.exponent)
      [] OTHER -> 1

RECURSIVE Objects(_)
\* The objects reachable from e.
Objects(e) ==
    CASE e.tag \in {"Add", "Multiply"} ->
            {e.id} \cup Objects(e.left) \cup Objects(e.right)
      [] e.tag = "Power" -> {e.id} \cup Objects(e.base) \cup Objects(e.exponent)
      [] OTHER -> {e.id}

IsTree(e) == Size(e) = Cardinality(Objects(e))

Coef(p, m) == IF m \in DOMAIN p THEN p[m] ELSE 0

PConst(n) == [m \in (IF n = 0 THEN {} ELSE {<<0, 0>>}) |-> n]

PVar(name) == [m \in {IF name = "x" THEN <<1, 0>> ELSE <<0, 1>>} |-> 1]

PAdd(p, q) ==
    [m \in {k \in DOMAIN p \cup DOMAIN q : Coef(p, k) + Coef(q, k) # 0}
        |-> Coef(p, m) + Coef(q, m)]

RECURSIVE SumProducts(_, _, _, _)
\* The sum over a in S of p[a] * q[m - a].
SumProducts(p, q, m, S) ==
    IF S = {} THEN 0
    ELSE LET a == CHOOSE k \in S : TRUE
         IN  p[a] * Coef(q, <<m[1] - a[1], m[2] - a[2]>>)
                + SumProducts(p, q, m, S \ {a})

PMul(p, q) ==
    LET D == {<<a[1] + b[1], a[2] + b[2]>> : a \in DOMAIN p, b \in DOMAIN q}
    IN  [m \in {k \in D : SumProducts(p, q, k, DOMAIN p) # 0}
            |-> SumProducts(p, q, m, DOMAIN p)]

RECURSIVE PPow(_, _)
PPow(p, n) == IF n = 0 THEN PConst(1) ELSE PMul(p, PPow(p, n - 1))

\* The formal derivative with respect to v.
PDeriv(p, v) ==
    LET i == IF v = "x" THEN 1 ELSE 2
        down(m) == IF i = 1 THEN <<m[1] - 1, m[2]>> ELSE <<m[1], m[2] - 1>>
        up(m) == IF i = 1 THEN <<m[1] + 1, m[2]>> ELSE <<m[1], m[2] + 1>>
    IN  [m \in {down(k) : k \in {a \in DOMAIN p : a[i] >= 1}}
            |-> up(m)[i] * p[up(m)]]

RECURSIVE PolyOf(_)
\* The polynomial e denotes; an exponent is a constant expression.
PolyOf(e) ==
    CASE e.tag = "Constant" -> PConst(e.value.num)
      [] e.tag = "Variable" -> PVar(e.name)
      [] e.tag = "Add" -> PAdd(PolyOf(e.left), PolyOf(e.right))
      [] e.tag = "Multiply" -> PMul(PolyOf(e.left), PolyOf(e.right))
      [] e.tag = "Power" ->
            PPow(PolyOf(e.base), Coef(PolyOf(e.exponent), <<0, 0>>))

RECURSIVE Denotes(_)
\* e denotes a polynomial: int constants, exponents constant and >= 0.
Denotes(e) ==
    CASE e.tag = "Constant" -> e.value.kind = "int"
      [] e.tag = "Variable" -> TRUE
      [] e.tag \in {"Add", "Multiply"} -> Denotes(e.left) /\ Denotes(e.right)
      [] e.tag = "Power" ->
            /\ Denotes(e.base)
            /\ Denotes(e.exponent)
            /\ DOMAIN PolyOf(e.exponent) \subseteq {<<0, 0>>}
            /\ Coef(PolyOf(e.exponent), <<0, 0>>) >= 0
      [] OTHER -> FALSE

RECURSIVE IsPolynomial(_)
\* Built from int Constants, Variables, Add, Multiply and Power with an
\* exponent Constant(n), n >= 1.
IsPolynomial(e) ==
    CASE e.tag = "Constant" -> e.value.kind = "int"
      [] e.tag = "Variable" -> TRUE
      [] e.tag \in {"Add", "Multiply"} -> IsPolynomial(e.left) /\ IsPolynomial(e.right)
      [] e.tag = "Power" ->
            /\ IsPolynomial(e.base)
            /\ IsConstant(e.exponent)
            /\ e.exponent.value.kind = "int"
            /\ e.exponent.value.num >= 1
      [] OTHER -> FALSE

(***************************************************************************)
(* C3: on a polynomial expression e, differentiate(e, v) denotes the       *)
(* formal derivative of the polynomial of e with respect to v.             *)
(***************************************************************************)
C3_DerivativeOfPolynomial ==
    (pc = "differentiated" /\ IsPolynomial(expr)) =>
        /\ IsExpression(result)
        /\ Denotes(result)
        /\ PolyOf(result) = PDeriv(PolyOf(expr), var)

C3_Witness ==
    /\ Differentiated
    /\ var = "x"
    /\ IsPolynomial(expr)
    /\ expr.tag = "Multiply"
    /\ HasTag(expr, "Power")
    /\ <<2, 0>> \in DOMAIN PolyOf(result)

(***************************************************************************)
(* C4: sum rule.  simplify(differentiate(Add(a, b), v)) is, node for node, *)
(* simplify(Add(differentiate(a, v), differentiate(b, v))), and the second *)
(* computation succeeds whenever the first does.                           *)
(***************************************************************************)
\* simplify(Add(a.differentiate(v), b.differentiate(v)))
SumOfDerivatives(a, b, v) ==
    LET da == Differentiate(a, v, <<4>>)
        db == Differentiate(b, v, <<5>>)
    IN  IF IsError(da) THEN da
        ELSE IF IsError(db) THEN db
        ELSE Simplify(Add(<<7>>, da, db), <<3>>)

C4_SumRule ==
    (pc = "reduced" /\ expr.tag = "Add" /\ IsExpression(final)) =>
        LET second == SumOfDerivatives(expr.left, expr.right, var)
        IN  second # Error("Unmodelled") =>
                IsExpression(second) /\ Same(second, final)

(***************************************************************************)
(* C5: for f = 3x^2 + 2x + 1, simplify(differentiate(f, 'x')) is           *)
(* Add(Multiply(Constant(6), Variable('x')), Constant(2)), rendered        *)
(* "((6 * x) + 2)".                                                        *)
(***************************************************************************)
SixXPlusTwo ==
    Add(<<>>, Multiply(<<>>, Constant(<<>>, Int_(6)), Variable(<<>>, "x")),
        Constant(<<>>, Int_(2)))

DerivativeOfExamplePrinted == pc = "printed" /\ expr = f1 /\ var = "x"

C5_ExampleFullyReduced ==
    DerivativeOfExamplePrinted =>
        text = "((6 * x) + 2)" \/ Strip(final) = SixXPlusTwo

(***************************************************************************)
(* C5 as amended: simplify(differentiate(f, 'x')) is                       *)
(* Add(Multiply(Constant(3), Multiply(Constant(2), Variable('x'))),        *)
(* Constant(2)), rendered "((3 * (2 * x)) + 2)": the constants 3 and 2 are *)
(* not multiplied out; it denotes the polynomial 6x + 2.                   *)
(***************************************************************************)
ThreeTimesTwoXPlusTwo ==
    Add(<<>>,
        Multiply(<<>>, Constant(<<>>, Int_(3)),
            Multiply(<<>>, Constant(<<>>, Int_(2)), Variable(<<>>, "x"))),
        Constant(<<>>, Int_(2)))

C5_ExampleDerivative ==
    DerivativeOfExamplePrinted =>
        /\ text = "((3 * (2 * x)) + 2)"
        /\ Strip(final) = ThreeTimesTwoXPlusTwo
        /\ PolyOf(final) = PolyOf(SixXPlusTwo)
        /\ Str(expr) = "(((3 * (x^2)) + (2 * x)) + 1)"

C5_Witness == DerivativeOfExamplePrinted /\ Reduced(final)

(***************************************************************************)
(* The construction layer as a caller drives it: an expression grown by    *)
(* operators whose other operand is a literal (a number, a text, None) or  *)
(* an expression.                                                          *)
(***************************************************************************)
Operands ==
    {Literal(Int_(n)) : n \in ConstValues}
        \cup {Literal(Text_), Literal(None_)}
        \cup {Variable(<<9>>, "x")}

\* The identity of the next operator call on expr.
NextCall == <<0, Size(expr)>>

InitBuild ==
    /\ expr \in {Relabel(t, <<0>>) : t \in Leaves}
    /\ var = "x"
    /\ result = NoResult
    /\ final = NoResult
    /\ text = ""
    /\ pc = "building"

CanBuild == pc = "building" /\ Size(expr) < 2 * MaxBuild + 1

\* expr + other
OpAdd(other) ==
    /\ CanBuild
    /\ expr' = __add__(expr, other, NextCall)
    /\ UNCHANGED <<var, result, final, text, pc>>

\* other + expr, other not an expression
OpRadd(other) ==
    /\ CanBuild
    /\ ~IsExpression(other)
    /\ expr' = __radd__(expr, other, NextCall)
    /\ UNCHANGED <<var, result, final, text, pc>>

\* expr - other
OpSub(other) ==
    /\ CanBuild
    /\ expr' = __sub__(expr, other, NextCall)
    /\ UNCHANGED <<var, result, final, text, pc>>

\* other - expr, other not an expression
OpRsub(other) ==
    /\ CanBuild
    /\ ~IsExpression(other)
    /\ expr' = __rsub__(expr, other, NextCall)
    /\ UNCHANGED <<var, result, final, text, pc>>

\* expr * other
OpMul(other) ==
    /\ CanBuild
    /\ expr' = __mul__(expr, other, NextCall)
    /\ UNCHANGED <<var, result, final, text, pc>>

\* other * expr, other not an expression
OpRmul(other) ==
    /\ CanBuild
    /\ ~IsExpression(other)
    /\ expr' = __rmul__(expr, other, NextCall)
    /\ UNCHANGED <<var, result, final, text, pc>>

\* expr ** other
OpPow(other) ==
    /\ CanBuild
    /\ expr' = __pow__(expr, other, NextCall)
    /\ UNCHANGED <<var, result, final, text, pc>>

NextBuild ==
    \E other \in Operands :
        \/ OpAdd(other)
        \/ OpRadd(other)
        \/ OpSub(other)
        \/ OpRsub(other)
        \/ OpMul(other)
        \/ OpRmul(other)
        \/ OpPow(other)

SpecBuild == InitBuild /\ [][NextBuild]_vars

RECURSIVE NumericConstants(_)
\* Every Constant of e holds a number.
NumericConstants(e) ==
    CASE e.tag = "Constant" -> IsNumber(e.value)
      [] e.tag \in {"Add", "Multiply"} ->
            NumericConstants(e.left) /\ NumericConstants(e.right)
      [] e.tag = "Power" ->
            NumericConstants(e.base) /\ NumericConstants(e.exponent)
      [] OTHER -> TRUE

(***************************************************************************)
(* C6: an operand that is neither an expression nor a number is rejected:  *)
(* no tree is built from it, so no built tree holds a Constant whose value *)
(* is not a number.                                                        *)
(***************************************************************************)
C6_RejectsNonNumbers == pc = "building" => NumericConstants(expr)

====
